---- MODULE Spec2Model ----
\* Model of the authenticated client (YouTubeContext / SpotifyContext) and of the
\* playlist pages (pages/YouTube.js, pages/Spotify.js): OAuth token lifecycle,
\* refresh-and-retry on 401, the batch playlist analysis and the selection/save ledger.
\*
\* One behaviour is one page load with the page of one platform on screen (`page`).
\* Both providers keep their own session state, so the session variables are
\* functions over Platforms; the page state exists only for the page on screen.
\* JavaScript runs a handler to its next await without interleaving, so one action
\* is one such run-to-suspension: the arrival of a response, everything the code
\* does with it, and the next request it issues.
EXTENDS Integers, Sequences, FiniteSets, TLC

(***************************************************************************)
(* Bounds                                                                  *)
(***************************************************************************)
\* longest item list a playlist endpoint returns
MaxItems == 2
\* number of access tokens the refresh endpoint issues within one behaviour
MaxRefresh == 2

(***************************************************************************)
(* Values                                                                  *)
(***************************************************************************)
\* useState(null), localStorage.getItem of a missing key: the absent token
null == 0

Platforms == {"yt", "sp"}

ItemIds == {"a", "b"}

AXES == {"valence", "energy", "tension", "warmth", "power", "complexity"}

\* a profile that is absent (null / undefined in the payload)
NoProfile == [absent |-> TRUE]

\* two 6-axis profiles an analysis can return, in tenths of the [0,1] range
Profiles ==
  { [valence |-> 2, energy |-> 8, tension |-> 4, warmth |-> 6, power |-> 0, complexity |-> 10],
    [valence |-> 9, energy |-> 1, tension |-> 4, warmth |-> 3, power |-> 7, complexity |-> 5] }

\* JavaScript truthiness of a profile value: an object is truthy, null is not
Truthy(profile) == profile # NoProfile

RECURSIVE SeqsUpTo(_)
SeqsUpTo(n) ==
  IF n = 0 THEN {<<>>}
  ELSE LET shorter == SeqsUpTo(n - 1)
       IN  shorter \cup {Append(s, x) : s \in {t \in shorter : Len(t) = n - 1}, x \in ItemIds}

\* the ordered item lists a playlist can hold (an id may occur more than once)
ItemLists == SeqsUpTo(MaxItems)

EmptyBody == [empty |-> TRUE]
\* a 2xx body whose response.json() throws
Malformed == [malformed |-> TRUE]

\* what the server can answer to a request of each purpose with a 2xx status
OkBodies(purpose) ==
  CASE purpose = "playlists" -> {[playlists |-> TRUE], Malformed}
    [] purpose = "videos" ->
         {[items |-> s, total |-> t] : s \in ItemLists, t \in {MaxItems}} \cup
         {[items |-> s, total |-> Len(s)] : s \in ItemLists} \cup {Malformed}
    [] purpose = "tracks" -> {[items |-> s, total |-> Len(s)] : s \in ItemLists} \cup {Malformed}
    [] purpose = "analyze" -> {[profile |-> q] : q \in Profiles \cup {NoProfile}} \cup {Malformed}
    [] purpose = "features" ->
         {[features |-> f, api_restricted |-> r] :
            f \in [ItemIds -> Profiles \cup {NoProfile}], r \in BOOLEAN} \cup {Malformed}
    [] OTHER -> {EmptyBody}

\* every response fetch() can produce: a 2xx, a 401, another non-2xx status, or a
\* rejected promise (network error); attempt tells the two requests of one call apart
Responses(purpose, attempt) ==
  {[status |-> "ok", body |-> b, attempt |-> attempt] : b \in OkBodies(purpose)} \cup
  {[status |-> s, body |-> EmptyBody, attempt |-> attempt] : s \in {"unauth", "error", "throw"}}

NoResponse == [status |-> "none", body |-> EmptyBody, attempt |-> 0]

(***************************************************************************)
(* State                                                                   *)
(***************************************************************************)
VARIABLES
  page,             \* the platform whose page is on screen
  mounted,          \* the provider's mount effect has run
  urlParams,        \* OAuth callback parameters in window.location.search
  token,            \* ytToken / spotifyToken
  refreshTok,       \* ytRefreshToken / spotifyRefreshToken
  platformUser,     \* ytUser / spotifyUser present
  me,               \* the fetchYouTubeUser / fetchSpotifyUser invocation in progress
  meDue,            \* useEffect([ytToken]) has to run: the token changed to a new value
  localStorage,     \* per platform [token, refresh_token]
  issued,           \* access tokens issued by the refresh endpoint so far
  call,             \* the ytFetch / spotifyFetch call in progress, with its history
  done,             \* history: the call that returned last
  playlists,        \* playlists state: "none" | "loading" | "loaded"
  run,              \* locals of the analyzePlaylist invocation
  isAnalyzing,      \* YouTube page
  analysisComplete, \* YouTube page
  analyzedVideos,   \* YouTube page
  failedVideos,     \* YouTube page
  analysisPhase,    \* Spotify page: "none" | "fetching" | "analyzing" | "complete"
  tracksBeingAnalyzed, \* Spotify page
  analyzedData,     \* Spotify page
  progress,
  error,            \* "none" | "failed" | "restricted" (the advisory)
  signedIn,         \* useAuth().user is present
  selected,         \* selectedVideos / selectedTracks
  saved,            \* savedVideos / savedTracks
  saving,
  saveQueue,        \* videosToSave / tracksToSave not yet saved; the head is in flight
  analyzeIssued,    \* history: indices of the items whose analyze request was issued
  refreshFailed,    \* history: a refresh failed since the last authorization callback
  lastOp            \* history: the handler that ran last

credVars == <<token, refreshTok, platformUser, localStorage, meDue>>
sessVars == <<credVars, issued, me>>
ytVars == <<isAnalyzing, analysisComplete, analyzedVideos, failedVideos>>
spVars == <<analysisPhase, tracksBeingAnalyzed, analyzedData>>
runVars == <<run, progress, error, analyzeIssued>>
ledgerVars == <<selected, saved, saving, saveQueue>>
batchVars == <<playlists, runVars, ytVars, spVars>>
pageVars == <<batchVars, ledgerVars, signedIn>>
vars == <<page, mounted, urlParams, sessVars, call, done, pageVars, refreshFailed, lastOp>>

isConnected(p) == token[p] # null

(***************************************************************************)
(* Session: one platform's credentials, in memory and in localStorage       *)
(***************************************************************************)
Sess(p) == [token |-> token[p], refreshToken |-> refreshTok[p],
            user |-> platformUser[p], ls |-> localStorage[p]]

\* a store whose keys are not per platform: the session is written for every platform
SetSessShared(p, s) ==
  /\ token' = [q \in Platforms |-> s.token]
  /\ refreshTok' = [q \in Platforms |-> s.refreshToken]
  /\ platformUser' = [q \in Platforms |-> s.user]
  /\ localStorage' = [q \in Platforms |-> s.ls]
  /\ meDue' = (s.token # null /\ (meDue \/ s.token # token[p]))

\* the state setters and the localStorage keys of platform p: yt_token and
\* yt_refresh_token, or spotify_token and spotify_refresh_token
SetSess(p, s) ==
  /\ token' = [token EXCEPT ![p] = s.token]
  /\ refreshTok' = [refreshTok EXCEPT ![p] = s.refreshToken]
  /\ platformUser' = [platformUser EXCEPT ![p] = s.user]
  /\ localStorage' = [localStorage EXCEPT ![p] = s.ls]
  /\ meDue' = (s.token # null /\ (meDue \/ s.token # token[p]))

\* disconnect as it would be without the two localStorage.removeItem calls
disconnectKeepStorage(s) ==
  [token |-> null, refreshToken |-> null, user |-> FALSE, ls |-> s.ls]

\* disconnect as it would be without setYtUser(null)
disconnectKeepUser(s) ==
  [token |-> null, refreshToken |-> null, user |-> s.user,
   ls |-> [token |-> null, refresh_token |-> null]]

\* disconnectYouTube / disconnectSpotify
disconnect(s) ==
  [token |-> null, refreshToken |-> null, user |-> FALSE,
   ls |-> [token |-> null, refresh_token |-> null]]

\* the response.ok branch as it would be without localStorage.setItem
refreshedMemoryOnly(p, s, access, rotated) == [s EXCEPT !.token = access]

\* refreshToken, response.ok branch: the new access token is stored in memory and
\* in localStorage; Spotify also stores a rotated refresh token when one is sent
refreshed(p, s, access, rotated) ==
  IF p = "sp" /\ rotated # null
  THEN [s EXCEPT !.token = access, !.ls.token = access,
                 !.refreshToken = rotated, !.ls.refresh_token = rotated]
  ELSE [s EXCEPT !.token = access, !.ls.token = access]

\* the mount effect as it would be without the two localStorage.setItem calls
mountEffectMemoryOnly(s, params) ==
  IF params.token # null
  THEN IF params.refresh # null
       THEN [s EXCEPT !.token = params.token, !.refreshToken = params.refresh]
       ELSE [s EXCEPT !.token = params.token]
  ELSE [s EXCEPT !.token = s.ls.token, !.refreshToken = s.ls.refresh_token]

\* the mount effect as it would be if an error parameter cleared the stored tokens
mountEffectErrorClears(s, params) ==
  IF params.token # null
  THEN IF params.refresh # null
       THEN [s EXCEPT !.token = params.token, !.ls.token = params.token,
                      !.refreshToken = params.refresh, !.ls.refresh_token = params.refresh]
       ELSE [s EXCEPT !.token = params.token, !.ls.token = params.token]
  ELSE IF params.error
       THEN [s EXCEPT !.token = null, !.refreshToken = null,
                      !.ls = [token |-> null, refresh_token |-> null]]
       ELSE [s EXCEPT !.token = s.ls.token, !.refreshToken = s.ls.refresh_token]

\* the mount effect as it would be if only the access token were restored
mountEffectAccessOnly(s, params) ==
  IF params.token # null
  THEN IF params.refresh # null
       THEN [s EXCEPT !.token = params.token, !.ls.token = params.token,
                      !.refreshToken = params.refresh, !.ls.refresh_token = params.refresh]
       ELSE [s EXCEPT !.token = params.token, !.ls.token = params.token]
  ELSE [s EXCEPT !.token = s.ls.token]

\* the mount effect of the provider: consume the callback parameters or restore
\* the tokens kept in localStorage
mountEffect(s, params) ==
  IF params.token # null
  THEN IF params.refresh # null
       THEN [s EXCEPT !.token = params.token, !.ls.token = params.token,
                      !.refreshToken = params.refresh, !.ls.refresh_token = params.refresh]
       ELSE [s EXCEPT !.token = params.token, !.ls.token = params.token]
  ELSE [s EXCEPT !.token = s.ls.token, !.refreshToken = s.ls.refresh_token]

\* what an earlier session can have left in localStorage
StoredPairs == {[token |-> null, refresh_token |-> null],
                [token |-> 1, refresh_token |-> 1]}

NoParams == [token |-> null, refresh |-> null, error |-> FALSE]

(***************************************************************************)
(* The authenticated call: ytFetch / spotifyFetch                          *)
(***************************************************************************)
IdleCall ==
  [pc |-> "idle", purpose |-> "none", capTok |-> null, capRefresh |-> null,
   sentTok |-> null, reqCount |-> 0, refreshCount |-> 0, refreshOutcome |-> "none",
   newTok |-> null, rotated |-> null, first |-> NoResponse, second |-> NoResponse,
   returned |-> NoResponse]

\* ytFetch is entered: the first request goes out with the token the closure holds
Begin(purpose, tok, ref) ==
  [IdleCall EXCEPT !.pc = "req1", !.purpose = purpose, !.capTok = tok,
                   !.capRefresh = ref, !.sentTok = tok, !.reqCount = 1]

\* ytFetch returns (or rethrows) r to its caller
Return(c, r) == [c EXCEPT !.pc = "idle", !.returned = r]

\* after `await refreshToken()`: read the token back from localStorage and, when
\* there is one, reissue the request with it; otherwise return the 401 response
afterRefresh(c, ls) ==
  IF ls.token # null
  THEN [c EXCEPT !.pc = "req2", !.sentTok = ls.token, !.reqCount = c.reqCount + 1]
  ELSE Return(c, c.first)

\* the retry as it would be if a 401 were answered by reissuing the request again
afterRetryAgain(c, r) ==
  IF r.status = "unauth"
  THEN [c EXCEPT !.second = r, !.reqCount = c.reqCount + 1]
  ELSE Return([c EXCEPT !.second = r], r)

\* the response of the reissued request is returned whatever it is
afterRetry(c, r) == Return([c EXCEPT !.second = r], r)


(***************************************************************************)
(* pages/YouTube.js: analyzePlaylist                                       *)
(***************************************************************************)
Max(a, b) == IF a >= b THEN a ELSE b

\* analyzePlaylist at rest; high is the highest progress.current the run has set
IdleRun == [stage |-> "idle", items |-> <<>>, total |-> 0, i |-> 0,
            capTok |-> null, capRefresh |-> null,
            features |-> [id \in ItemIds |-> NoProfile], local |-> <<>>, high |-> 0]

\* the entry pushed for a video that is about to be analyzed
pendingVideo(id) == [id |-> id, analyzing |-> TRUE, profile |-> NoProfile, failed |-> FALSE]

\* the response.ok update as it would be if it left the entry analyzing
resolveOkStillAnalyzing(vids, id, profile) ==
  [k \in 1..Len(vids) |->
     IF vids[k].id = id THEN [vids[k] EXCEPT !.profile = profile] ELSE vids[k]]

\* setAnalyzedVideos(prev => prev.map(...)) of the response.ok branch
resolveOk(vids, id, profile) ==
  [k \in 1..Len(vids) |->
     IF vids[k].id = id THEN [vids[k] EXCEPT !.analyzing = FALSE, !.profile = profile]
     ELSE vids[k]]

\* setAnalyzedVideos(prev => prev.map(...)) of the else branch and of the catch
resolveFailed(vids, id) ==
  [k \in 1..Len(vids) |->
     IF vids[k].id = id THEN [vids[k] EXCEPT !.analyzing = FALSE, !.failed = TRUE]
     ELSE vids[k]]

\* what a row shows for an entry: spinner, failed badge, profile bars, or nothing
Status(v) ==
  IF v.analyzing THEN "pending"
  ELSE IF v.failed THEN "failed"
  ELSE IF Truthy(v.profile) THEN "succeeded"
  ELSE "none"

\* the outer catch of analyzePlaylist
ytAbort ==
  /\ error' = "failed"
  /\ isAnalyzing' = FALSE
  /\ run' = [run EXCEPT !.stage = "idle"]
  /\ call' = IdleCall
  /\ UNCHANGED <<analysisComplete, analyzedVideos, failedVideos, progress, analyzeIssued,
                 playlists, spVars>>

\* the for loop at index i (from 1), entered with the lists as the previous
\* iteration left them: either the next analyze request goes out or the run completes
ytLoop(r, i, vids, fails, prog) ==
  IF i <= Len(r.items)
  THEN /\ progress' = [current |-> i, total |-> r.total]
       /\ analyzedVideos' = Append(vids, pendingVideo(r.items[i]))
       /\ failedVideos' = fails
       /\ call' = Begin("analyze", r.capTok, r.capRefresh)
       /\ analyzeIssued' = Append(analyzeIssued, i)
       /\ run' = [r EXCEPT !.stage = "loop", !.i = i, !.high = Max(r.high, i)]
       /\ UNCHANGED <<isAnalyzing, analysisComplete, error, playlists, spVars>>
  ELSE /\ isAnalyzing' = FALSE
       /\ analysisComplete' = TRUE
       /\ analyzedVideos' = vids
       /\ failedVideos' = fails
       /\ progress' = prog
       /\ call' = IdleCall
       /\ run' = [r EXCEPT !.stage = "idle"]
       /\ UNCHANGED <<analyzeIssued, error, playlists, spVars>>

\* the list step as it would be without the response.ok test: a list that did not
\* arrive counts as an empty one
ytVideosReturnedUnchecked(c) ==
  LET r == c.returned IN
  IF r.status = "ok" /\ r.body # Malformed
  THEN ytLoop([run EXCEPT !.items = r.body.items, !.total = r.body.total], 1,
              analyzedVideos, failedVideos, [current |-> 0, total |-> r.body.total])
  ELSE ytLoop(run, 1, analyzedVideos, failedVideos, progress)

\* the item list arrived (or did not)
ytVideosReturned(c) ==
  LET r == c.returned IN
  IF r.status = "ok" /\ r.body # Malformed
  THEN ytLoop([run EXCEPT !.items = r.body.items, !.total = r.body.total], 1,
              analyzedVideos, failedVideos, [current |-> 0, total |-> r.body.total])
  ELSE ytAbort

\* the loop as it would be without the inner try/catch: a failed item ends the run
ytAnalyzeReturnedAbort(c) ==
  LET r == c.returned
      id == run.items[run.i]
  IN  IF r.status = "ok" /\ r.body # Malformed
      THEN ytLoop(run, run.i + 1, resolveOk(analyzedVideos, id, r.body.profile),
                  failedVideos, progress)
      ELSE ytAbort

\* the analysis of the current item returned (or threw)
ytAnalyzeReturned(c) ==
  LET r == c.returned
      id == run.items[run.i]
  IN  IF r.status = "ok" /\ r.body # Malformed
      THEN ytLoop(run, run.i + 1, resolveOk(analyzedVideos, id, r.body.profile),
                  failedVideos, progress)
      ELSE ytLoop(run, run.i + 1, resolveFailed(analyzedVideos, id),
                  Append(failedVideos, id), progress)

RECURSIVE sum(_, _)
\* profiles.reduce((s, p) => s + p[key], 0)
sum(profiles, key) ==
  IF profiles = <<>> THEN 0 ELSE profiles[1][key] + sum(Tail(profiles), key)

\* the per-axis mean sum / length, kept as the exact fraction; null for no profile
average(profiles) ==
  IF Len(profiles) > 0
  THEN LET mean(key) == [sum |-> sum(profiles, key), count |-> Len(profiles)]
       IN  [valence |-> mean("valence"), energy |-> mean("energy"),
            tension |-> mean("tension"), warmth |-> mean("warmth"),
            power |-> mean("power"), complexity |-> mean("complexity")]
  ELSE NoProfile

profileOf(v) == v.profile

RECURSIVE map(_, _)
map(s, i) == IF i > Len(s) THEN <<>> ELSE <<profileOf(s[i])>> \o map(s, i + 1)

\* the filter as it would be without the !v.failed test
successfulVideosAny(vids) == SelectSeq(vids, LAMBDA v : Truthy(v.profile))

\* analyzedVideos.filter(v => v.profile && !v.failed)
successfulVideos(vids) == SelectSeq(vids, LAMBDA v : Truthy(v.profile) /\ ~v.failed)

\* the YouTube page's avgProfile, computed on every render
avgProfile == average(map(successfulVideos(analyzedVideos), 1))

(***************************************************************************)
(* pages/Spotify.js: analyzePlaylist                                       *)
(***************************************************************************)
NoData == [absent |-> TRUE]

pendingTrack(id) == [id |-> id, analyzing |-> TRUE, profile |-> NoProfile]

\* { ...track, profile: featureData?.axes || null, analyzing: false }
analyzedTrack(id, features) == [id |-> id, analyzing |-> FALSE, profile |-> features[id]]

\* the catch of analyzePlaylist
spAbort ==
  /\ error' = "failed"
  /\ analysisPhase' = "none"
  /\ run' = [run EXCEPT !.stage = "idle"]
  /\ call' = IdleCall
  /\ UNCHANGED <<tracksBeingAnalyzed, analyzedData, progress, analyzeIssued, playlists,
                 ytVars>>

\* the first loop at index i: the track is shown as analyzing and the 30 ms timer is
\* awaited; after the last track the audio-features request goes out
spReveal(r, i, shown) ==
  IF i <= Len(r.items)
  THEN /\ progress' = [current |-> i, total |-> Len(r.items)]
       /\ tracksBeingAnalyzed' = Append(shown, pendingTrack(r.items[i]))
       /\ run' = [r EXCEPT !.stage = "reveal", !.i = i, !.high = Max(r.high, i)]
       /\ call' = IdleCall
  ELSE /\ progress' = [current |-> Len(r.items), total |-> Len(r.items)]
       /\ tracksBeingAnalyzed' = shown
       /\ run' = [r EXCEPT !.stage = "features"]
       /\ call' = Begin("features", r.capTok, r.capRefresh)

\* tracks.filter(t => t.profile).map(t => t.profile)
profilesOf(tracks) == map(SelectSeq(tracks, LAMBDA t : Truthy(t.profile)), 1)

\* the second loop at index i: the track gets its profile and the 20 ms timer is
\* awaited; after the last track the average is computed and the run is complete
spResolve(r, i) ==
  IF i <= Len(r.items)
  THEN LET t == analyzedTrack(r.items[i], r.features) IN
       /\ tracksBeingAnalyzed' = [tracksBeingAnalyzed EXCEPT ![i] = t]
       /\ run' = [r EXCEPT !.stage = "resolve", !.i = i, !.local = Append(r.local, t)]
       /\ UNCHANGED <<analyzedData, analysisPhase>>
  ELSE /\ analyzedData' = [tracks |-> r.local, total |-> Len(r.local),
                           average_profile |-> average(profilesOf(r.local))]
       /\ analysisPhase' = "complete"
       /\ run' = [r EXCEPT !.stage = "idle"]
       /\ UNCHANGED tracksBeingAnalyzed

\* the track list arrived (or did not)
spTracksReturned(c) ==
  LET r == c.returned IN
  IF r.status = "ok" /\ r.body # Malformed
  THEN /\ analysisPhase' = "analyzing"
       \* setProgress({ current: tracks.length, ... }) comes before the loop
       /\ spReveal([run EXCEPT !.items = r.body.items, !.high = Len(r.body.items)], 1,
                   tracksBeingAnalyzed)
       /\ UNCHANGED <<analyzedData, error, analyzeIssued, playlists, ytVars>>
  ELSE spAbort

\* the audio features arrived (or did not)
spFeaturesReturned(c) ==
  LET r == c.returned IN
  IF r.status = "ok" /\ r.body # Malformed
  THEN /\ error' = IF r.body.api_restricted THEN "restricted" ELSE error
       /\ spResolve([run EXCEPT !.features = r.body.features], 1)
       /\ call' = IdleCall
       /\ UNCHANGED <<progress, analyzeIssued, playlists, ytVars>>
  ELSE spAbort

(***************************************************************************)
(* Continuations of the authenticated call                                 *)
(***************************************************************************)
\* fetchPlaylists after its ytFetch returned
playlistsReturned(c) ==
  /\ playlists' = IF c.returned.status = "ok" /\ c.returned.body # Malformed
                  THEN "loaded" ELSE "empty"
  /\ call' = IdleCall
  /\ UNCHANGED <<runVars, ytVars, spVars>>

\* the caller's continuation once the authenticated call returned
Continue(c) ==
  CASE c.purpose = "playlists" -> playlistsReturned(c)
    [] c.purpose = "videos" -> ytVideosReturned(c)
    [] c.purpose = "analyze" -> ytAnalyzeReturned(c)
    [] c.purpose = "tracks" -> spTracksReturned(c)
    [] c.purpose = "features" -> spFeaturesReturned(c)

\* the call either goes on (a request is in flight) or returns to its caller
Proceed(c) ==
  IF c.pc = "idle"
  THEN done' = c /\ Continue(c)
  ELSE call' = c /\ UNCHANGED <<done, batchVars>>

(***************************************************************************)
(* Actions: provider and authenticated call                                *)
(***************************************************************************)
Op(name) == [op |-> name, id |-> "-"]

\* fetchYouTubeUser at rest; since is the number of tokens the refresh endpoint had
\* issued when its last refresh request went out
IdleMe == [pc |-> "idle", capTok |-> null, capRefresh |-> null, since |-> 0]

Statuses == {"ok", "unauth", "error", "throw"}

\* the provider mounts: OAuth callback parameters or restore from localStorage
Mount ==
  /\ ~mounted
  /\ mounted' = TRUE
  /\ SetSess(page, mountEffect(Sess(page), urlParams))
  /\ urlParams' = IF urlParams.token # null \/ urlParams.error THEN NoParams ELSE urlParams
  /\ refreshFailed' = (IF urlParams.token # null THEN FALSE ELSE refreshFailed)
  /\ lastOp' = [op |-> "mount",
                id |-> IF urlParams.token # null THEN "callback"
                       ELSE IF urlParams.error THEN "error" ELSE "restore"]
  /\ UNCHANGED <<page, issued, me, call, done, pageVars>>

\* useEffect([ytToken]) of the provider: fetchYouTubeUser sends GET /me
FetchUser ==
  /\ mounted /\ meDue /\ isConnected(page) /\ me.pc = "idle"
  /\ meDue' = FALSE
  /\ me' = [IdleMe EXCEPT !.pc = "req", !.capTok = token[page],
                           !.capRefresh = refreshTok[page]]
  /\ lastOp' = Op("fetchUser")
  /\ UNCHANGED <<page, mounted, urlParams, token, refreshTok, platformUser, localStorage,
                 issued, call, done, pageVars, refreshFailed>>

\* GET /me answers 2xx: setYtUser(user)
FetchUserOk ==
  /\ me.pc = "req"
  /\ me' = IdleMe
  /\ platformUser' = [platformUser EXCEPT ![page] = TRUE]
  /\ lastOp' = Op("userLoaded")
  /\ UNCHANGED <<page, mounted, urlParams, token, refreshTok, localStorage, meDue,
                 issued, call, done, pageVars, refreshFailed>>

\* GET /me answers 401: fetchYouTubeUser calls refreshToken and returns
FetchUserUnauth ==
  /\ me.pc = "req"
  /\ IF me.capRefresh = null
     THEN /\ SetSess(page, disconnect(Sess(page)))
          /\ me' = IdleMe
          /\ refreshFailed' = TRUE
          /\ lastOp' = Op("userDisconnected")
     ELSE /\ me' = [me EXCEPT !.pc = "refresh", !.since = issued]
          /\ lastOp' = Op("userRefreshSent")
          /\ UNCHANGED <<credVars, refreshFailed>>
  /\ UNCHANGED <<page, mounted, urlParams, issued, call, done, pageVars>>

\* the refresh request of fetchYouTubeUser is answered 2xx
UserRefreshOk ==
  /\ me.pc = "refresh"
  /\ issued < MaxRefresh
  /\ \E rotated \in {null, issued + 3} :
       SetSess(page, refreshed(page, Sess(page), issued + 3, rotated))
  /\ issued' = issued + 1
  /\ me' = [IdleMe EXCEPT !.since = me.since]
  /\ lastOp' = Op("userRefreshOk")
  /\ UNCHANGED <<page, mounted, urlParams, call, done, pageVars, refreshFailed>>

\* the refresh request of fetchYouTubeUser is answered non-2xx, or throws
UserRefreshFail ==
  /\ me.pc = "refresh"
  /\ SetSess(page, disconnect(Sess(page)))
  /\ me' = [IdleMe EXCEPT !.since = me.since]
  /\ refreshFailed' = TRUE
  /\ lastOp' = Op("userRefreshFailed")
  /\ UNCHANGED <<page, mounted, urlParams, issued, call, done, pageVars>>

\* useEffect([isConnected]) of the page: fetchPlaylists
FetchPlaylists ==
  /\ mounted /\ isConnected(page) /\ playlists = "none" /\ call.pc = "idle"
  /\ playlists' = "loading"
  /\ call' = Begin("playlists", token[page], refreshTok[page])
  /\ lastOp' = Op("fetchPlaylists")
  /\ UNCHANGED <<page, mounted, urlParams, sessVars, done, runVars, ytVars, spVars,
                 ledgerVars, signedIn, refreshFailed>>

\* a test that also takes a 5xx answer for an expired token
needsRefreshOnError(r) == r.status \in {"unauth", "error"}

\* response.status === 401 (a request that throws has no response to test)
needsRefresh(r) == r.status = "unauth"

\* the first response of the call arrives, with a status out of S
FetchResponse(S) ==
  /\ call.pc = "req1"
  /\ \E r \in Responses(call.purpose, 1) :
       /\ r.status \in S
       /\ LET c1 == [call EXCEPT !.first = r] IN
          IF needsRefresh(r)
          THEN IF c1.capRefresh = null
               THEN \* refreshToken: nothing to refresh with
                    LET s2 == disconnect(Sess(page)) IN
                    /\ SetSess(page, s2)
                    /\ refreshFailed' = TRUE
                    /\ lastOp' = Op("refreshFailed")
                    /\ Proceed(afterRefresh([c1 EXCEPT !.refreshOutcome = "skipped"], s2.ls))
               ELSE \* refreshToken: POST /refresh goes out
                    /\ call' = [c1 EXCEPT !.pc = "refresh",
                                          !.refreshCount = c1.refreshCount + 1]
                    /\ lastOp' = Op("refreshSent")
                    /\ UNCHANGED <<credVars, done, batchVars, refreshFailed>>
          ELSE /\ Proceed(Return(c1, r))
               /\ lastOp' = Op("response")
               /\ UNCHANGED <<credVars, refreshFailed>>
  /\ UNCHANGED <<page, mounted, urlParams, issued, me, ledgerVars, signedIn>>

\* the refresh endpoint answers 2xx with a new access token
RefreshOk ==
  /\ call.pc = "refresh"
  /\ issued < MaxRefresh
  /\ \E rotated \in {null, issued + 3} :
       LET access == issued + 3
           s2 == refreshed(page, Sess(page), access, rotated)
       IN  /\ SetSess(page, s2)
           /\ Proceed(afterRefresh([call EXCEPT !.refreshOutcome = "ok", !.newTok = access,
                                                !.rotated = rotated], s2.ls))
  /\ issued' = issued + 1
  /\ lastOp' = Op("refreshOk")
  /\ UNCHANGED <<page, mounted, urlParams, me, ledgerVars, signedIn, refreshFailed>>

\* the refresh endpoint answers non-2xx, or the request throws
RefreshFail ==
  /\ call.pc = "refresh"
  /\ LET s2 == disconnect(Sess(page)) IN
       /\ SetSess(page, s2)
       /\ Proceed(afterRefresh([call EXCEPT !.refreshOutcome = "fail"], s2.ls))
  /\ refreshFailed' = TRUE
  /\ lastOp' = Op("refreshFailed")
  /\ UNCHANGED <<page, mounted, urlParams, issued, me, ledgerVars, signedIn>>

\* the response of the reissued request arrives
RetryResponse ==
  /\ call.pc = "req2"
  /\ \E r \in Responses(call.purpose, 2) : Proceed(afterRetry(call, r))
  /\ lastOp' = Op("retryResponse")
  /\ UNCHANGED <<page, mounted, urlParams, sessVars, ledgerVars, signedIn, refreshFailed>>

\* the Disconnect button of the page header
DisconnectClick ==
  /\ mounted /\ isConnected(page)
  /\ SetSess(page, disconnect(Sess(page)))
  /\ lastOp' = Op("disconnect")
  /\ UNCHANGED <<page, mounted, urlParams, issued, me, call, done, pageVars, refreshFailed>>

\* the application is restarted (the page is loaded again without callback
\* parameters): every state of the providers and of the page starts over, requests
\* in flight are gone, and only localStorage is kept
Restart ==
  /\ mounted
  /\ mounted' = FALSE
  /\ urlParams' = NoParams
  /\ token' = [p \in Platforms |-> null]
  /\ refreshTok' = [p \in Platforms |-> null]
  /\ platformUser' = [p \in Platforms |-> FALSE]
  /\ me' = IdleMe
  /\ meDue' = FALSE
  /\ call' = IdleCall
  /\ playlists' = "none"
  /\ run' = IdleRun
  /\ isAnalyzing' = FALSE /\ analysisComplete' = FALSE
  /\ analyzedVideos' = <<>> /\ failedVideos' = <<>>
  /\ analysisPhase' = "none" /\ tracksBeingAnalyzed' = <<>> /\ analyzedData' = NoData
  /\ progress' = [current |-> 0, total |-> 0]
  /\ error' = "none"
  /\ signedIn' = FALSE
  /\ selected' = {} /\ saved' = {} /\ saving' = FALSE /\ saveQueue' = <<>>
  /\ analyzeIssued' = <<>>
  /\ lastOp' = Op("restart")
  /\ UNCHANGED <<page, localStorage, issued, done, refreshFailed>>

(***************************************************************************)
(* Actions: the playlist pages                                             *)
(***************************************************************************)
\* playlist buttons that are never disabled
playlistNeverDisabled == FALSE

\* the disabled attribute of the playlist buttons: isAnalyzing on the YouTube page,
\* analysisPhase && analysisPhase !== 'complete' on the Spotify page
playlistDisabled ==
  IF page = "yt" THEN isAnalyzing ELSE analysisPhase \notin {"none", "complete"}

\* a playlist button is clicked on the YouTube page
AnalyzePlaylistYT ==
  /\ page = "yt" /\ mounted /\ isConnected(page) /\ playlists = "loaded"
  /\ ~playlistDisabled
  /\ analyzedVideos' = <<>>
  /\ failedVideos' = <<>>
  /\ selected' = {}
  /\ saved' = {}
  /\ error' = "none"
  /\ isAnalyzing' = TRUE
  /\ analysisComplete' = FALSE
  /\ progress' = [current |-> 0, total |-> 0]
  /\ run' = [IdleRun EXCEPT !.stage = "list", !.capTok = token[page],
                            !.capRefresh = refreshTok[page]]
  /\ analyzeIssued' = <<>>
  /\ call' = Begin("videos", token[page], refreshTok[page])
  /\ lastOp' = Op("analyzePlaylist")
  /\ UNCHANGED <<page, mounted, urlParams, sessVars, done, playlists, spVars, saving,
                 saveQueue, signedIn, refreshFailed>>

\* a playlist button is clicked on the Spotify page
AnalyzePlaylistSP ==
  /\ page = "sp" /\ mounted /\ isConnected(page) /\ playlists = "loaded"
  /\ ~playlistDisabled
  /\ analyzedData' = NoData
  /\ error' = "none"
  /\ selected' = {}
  /\ saved' = {}
  /\ tracksBeingAnalyzed' = <<>>
  /\ analysisPhase' = "fetching"
  /\ \E count \in {0, MaxItems} : progress' = [current |-> 0, total |-> count]
  /\ run' = [IdleRun EXCEPT !.stage = "list", !.capTok = token[page],
                            !.capRefresh = refreshTok[page]]
  /\ analyzeIssued' = <<>>
  /\ call' = Begin("tracks", token[page], refreshTok[page])
  /\ lastOp' = Op("analyzePlaylist")
  /\ UNCHANGED <<page, mounted, urlParams, sessVars, done, playlists, ytVars, saving,
                 saveQueue, signedIn, refreshFailed>>

\* the 30 ms timer of the first Spotify loop fires
RevealTimer ==
  /\ run.stage = "reveal"
  /\ spReveal(run, run.i + 1, tracksBeingAnalyzed)
  /\ lastOp' = Op("revealTimer")
  /\ UNCHANGED <<page, mounted, urlParams, sessVars, done, playlists, error, analyzeIssued,
                 ytVars, analysisPhase, analyzedData, ledgerVars, signedIn, refreshFailed>>

\* the 20 ms timer of the second Spotify loop fires
ResolveTimer ==
  /\ run.stage = "resolve"
  /\ spResolve(run, run.i + 1)
  /\ lastOp' = Op("resolveTimer")
  /\ UNCHANGED <<page, mounted, urlParams, sessVars, call, done, playlists, progress, error,
                 analyzeIssued, ytVars, ledgerVars, signedIn, refreshFailed>>

(***************************************************************************)
(* Actions: selection and save                                             *)
(***************************************************************************)
\* the completed-analysis view is on screen
completeView ==
  /\ mounted /\ isConnected(page)
  /\ IF page = "yt" THEN analysisComplete /\ ~isAnalyzing
     ELSE analysisPhase = "complete" /\ analyzedData # NoData

\* the rows of the completed-analysis view
rows == IF page = "yt" THEN analyzedVideos ELSE analyzedData.tracks

\* the guard of a row's onClick, which is also when its checkbox exists and is enabled
canToggle(v) ==
  IF page = "yt" THEN Truthy(v.profile) /\ ~v.failed /\ v.id \notin saved
  ELSE v.id \notin saved

\* toggleVideoSelection / toggleTrackSelection
toggleSelection(prev, id) == IF id \in prev THEN prev \ {id} ELSE prev \cup {id}

\* the ids selectAll puts into the selection
allIds ==
  IF page = "yt"
  THEN {v.id : v \in {analyzedVideos[k] : k \in
                        {j \in 1..Len(analyzedVideos) :
                           Truthy(analyzedVideos[j].profile) /\ ~analyzedVideos[j].failed}}}
  ELSE {analyzedData.tracks[k].id : k \in 1..Len(analyzedData.tracks)}

\* videosToSave / tracksToSave
toSave ==
  IF page = "yt"
  THEN SelectSeq(analyzedVideos,
                 LAMBDA v : v.id \in selected /\ Truthy(v.profile) /\ ~v.failed)
  ELSE SelectSeq(analyzedData.tracks, LAMBDA t : t.id \in selected)

\* a default profile whose axes are all 0
defaultProfileZero == [key \in AXES |-> 0]

\* defaultProfile of saveSelectedTracks: every axis 0.5 (in tenths)
defaultProfile == [key \in AXES |-> 5]

\* the record passed to saveSongAnalysis for an item: the YouTube page sends
\* video.profile, the Spotify page track.profile || defaultProfile
songData(item) ==
  [id |-> item.id,
   profile |-> IF page = "yt" THEN item.profile
               ELSE IF Truthy(item.profile) THEN item.profile ELSE defaultProfile]

\* a row (or its checkbox) is clicked
RowClick ==
  /\ completeView
  /\ \E k \in 1..Len(rows) :
       /\ selected' = IF canToggle(rows[k]) THEN toggleSelection(selected, rows[k].id)
                      ELSE selected
       /\ lastOp' = [op |-> "rowClick", id |-> rows[k].id]
  /\ UNCHANGED <<page, mounted, urlParams, sessVars, call, done, batchVars, saved, saving,
                 saveQueue, signedIn, refreshFailed>>

SelectAll ==
  /\ completeView
  /\ selected' = allIds
  /\ lastOp' = Op("selectAll")
  /\ UNCHANGED <<page, mounted, urlParams, sessVars, call, done, batchVars, saved, saving,
                 saveQueue, signedIn, refreshFailed>>

\* selectNone as it would be if it forgot the saved ids too
SelectNoneClearsSaved ==
  /\ completeView
  /\ selected' = {}
  /\ saved' = {}
  /\ lastOp' = Op("selectNone")
  /\ UNCHANGED <<page, mounted, urlParams, sessVars, call, done, batchVars, saving,
                 saveQueue, signedIn, refreshFailed>>

SelectNone ==
  /\ completeView
  /\ selected' = {}
  /\ lastOp' = Op("selectNone")
  /\ UNCHANGED <<page, mounted, urlParams, sessVars, call, done, batchVars, saved, saving,
                 saveQueue, signedIn, refreshFailed>>

\* the loop of saveSelectedVideos over what is left to save: the next
\* saveSongAnalysis goes out, or the loop is over
saveLoop(queue) ==
  IF queue # <<>>
  THEN saving' = TRUE /\ saveQueue' = queue /\ UNCHANGED selected
  ELSE saving' = FALSE /\ saveQueue' = <<>> /\ selected' = {}

\* a Save button that stays enabled while a save action runs
saveEnabledWhileSaving == selected = {} \/ ~signedIn

\* the disabled attribute of the Save button
saveDisabled == saving \/ selected = {} \/ ~signedIn

\* the Save button is clicked
SaveClick ==
  /\ completeView
  /\ ~saveDisabled
  /\ saveLoop(toSave)
  /\ lastOp' = Op("save")
  /\ UNCHANGED <<page, mounted, urlParams, sessVars, call, done, batchVars, saved, signedIn,
                 refreshFailed>>

\* saveSongAnalysis resolves for the item in flight
SaveOk ==
  /\ saveQueue # <<>>
  /\ saved' = saved \cup {saveQueue[1].id}
  /\ saveLoop(Tail(saveQueue))
  /\ lastOp' = Op("saveOk")
  /\ UNCHANGED <<page, mounted, urlParams, sessVars, call, done, batchVars, signedIn,
                 refreshFailed>>

\* a throwing save as it would be without the try/catch inside the loop: the
\* exception ends saveSelectedVideos, and saving stays set
SaveThrowStops ==
  /\ saveQueue # <<>>
  /\ saveQueue' = <<>>
  /\ lastOp' = Op("saveThrow")
  /\ UNCHANGED <<page, mounted, urlParams, sessVars, call, done, batchVars, saved, signedIn,
                 selected, saving, refreshFailed>>

\* saveSongAnalysis throws for the item in flight
SaveThrow ==
  /\ saveQueue # <<>>
  /\ saveLoop(Tail(saveQueue))
  /\ lastOp' = Op("saveThrow")
  /\ UNCHANGED <<page, mounted, urlParams, sessVars, call, done, batchVars, saved, signedIn,
                 refreshFailed>>

\* the user signs in (AuthContext: onAuthStateChanged sets user)
SignIn ==
  /\ ~signedIn
  /\ signedIn' = TRUE
  /\ lastOp' = Op("signIn")
  /\ UNCHANGED <<page, mounted, urlParams, sessVars, call, done, batchVars, ledgerVars,
                 refreshFailed>>

(***************************************************************************)
(* Specifications                                                          *)
(***************************************************************************)
Init ==
  /\ page \in Platforms
  /\ mounted = FALSE
  /\ urlParams \in {NoParams, [NoParams EXCEPT !.error = TRUE],
                    [NoParams EXCEPT !.token = 2],
                    [NoParams EXCEPT !.token = 2, !.refresh = 2]}
  /\ token = [p \in Platforms |-> null]
  /\ refreshTok = [p \in Platforms |-> null]
  /\ platformUser = [p \in Platforms |-> FALSE]
  /\ me = IdleMe
  /\ meDue = FALSE
  /\ localStorage \in {ls \in [Platforms -> StoredPairs] :
                          \A p \in Platforms \ {page} : ls[p].token # null}
  /\ issued = 0
  /\ call = IdleCall
  /\ done = IdleCall
  /\ playlists = "none"
  /\ run = IdleRun
  /\ isAnalyzing = FALSE
  /\ analysisComplete = FALSE
  /\ analyzedVideos = <<>>
  /\ failedVideos = <<>>
  /\ analysisPhase = "none"
  /\ tracksBeingAnalyzed = <<>>
  /\ analyzedData = NoData
  /\ progress = [current |-> 0, total |-> 0]
  /\ error = "none"
  /\ signedIn = FALSE
  /\ selected = {}
  /\ saved = {}
  /\ saving = FALSE
  /\ saveQueue = <<>>
  /\ analyzeIssued = <<>>
  /\ refreshFailed = FALSE
  /\ lastOp = Op("init")

\* The pipeline: session, authenticated call and batch run under every answer the
\* server can give. GET /me is answered before the page fetches its playlists (the
\* two commute: the answer only sets the platform user); the selection and save
\* buttons are not used.
Next ==
  \/ Mount
  \/ (FetchUser /\ playlists = "none")
  \/ FetchUserOk
  \/ (FetchPlaylists /\ ~meDue /\ me.pc = "idle")
  \/ AnalyzePlaylistYT
  \/ AnalyzePlaylistSP
  \/ FetchResponse(Statuses)
  \/ RefreshOk
  \/ RefreshFail
  \/ RetryResponse
  \/ RevealTimer
  \/ ResolveTimer
  \/ DisconnectClick

Spec == Init /\ [][Next]_vars

\* The pipeline when every request that is in flight is eventually answered (with any
\* status, or by a rejected promise) and every timer that was set eventually fires.
\* Nothing is assumed of the user: no button has to be clicked.
Fairness ==
  /\ WF_vars(FetchResponse(Statuses))
  /\ WF_vars(RefreshOk \/ RefreshFail)
  /\ WF_vars(RetryResponse)
  /\ WF_vars(RevealTimer)
  /\ WF_vars(ResolveTimer)

SpecLive == Init /\ [][Next]_vars /\ Fairness

\* The ledger: the same program while the access token stays valid (no request is
\* answered 401 and none throws), with the selection and save buttons in use. A
\* save loop still running when another playlist is chosen gets its answers before
\* the new run gets its own.
NextLedger ==
  \/ Mount
  \/ FetchPlaylists
  \/ AnalyzePlaylistYT
  \/ AnalyzePlaylistSP
  \/ (FetchResponse({"ok", "error"}) /\ saveQueue = <<>>)
  \/ (RevealTimer /\ saveQueue = <<>>)
  \/ (ResolveTimer /\ saveQueue = <<>>)
  \/ (SignIn /\ completeView)
  \/ RowClick
  \/ SelectAll
  \/ SelectNone
  \/ SaveClick
  \/ SaveOk
  \/ SaveThrow

\* the page is opened by an authorization callback that carries both tokens
InitLedger ==
  /\ Init
  /\ urlParams = [NoParams EXCEPT !.token = 2, !.refresh = 2]
  /\ localStorage[page].token = null

SpecLedger == InitLedger /\ [][NextLedger]_vars

\* The session: GET /me and the playlists call of the page answered in any order and
\* with any status, so that the refresh of fetchYouTubeUser and the refresh of the
\* authenticated call can overlap. No playlist is chosen; the application can be
\* restarted at any time.
NextAuth ==
  \/ Mount
  \/ FetchUser
  \/ FetchUserOk
  \/ FetchUserUnauth
  \/ UserRefreshOk
  \/ UserRefreshFail
  \/ FetchPlaylists
  \/ FetchResponse(Statuses)
  \/ RefreshOk
  \/ RefreshFail
  \/ RetryResponse
  \/ DisconnectClick
  \/ Restart

SpecAuth == Init /\ [][NextAuth]_vars

(***************************************************************************)
(* Properties                                                              *)
(***************************************************************************)
\* what the completed view shows for a Spotify track
trackStatus(t) ==
  IF t.analyzing THEN "pending"
  ELSE IF Truthy(t.profile) THEN "succeeded"
  ELSE "none"

\* the run on the page reached the complete phase
completed == IF page = "yt" THEN analysisComplete ELSE analysisPhase = "complete"

\* the outcome list of the completed run and the status of each outcome
outcomes == IF page = "yt" THEN analyzedVideos ELSE analyzedData.tracks
outcomeStatus(v) == IF page = "yt" THEN Status(v) ELSE trackStatus(v)
succeededAt == {k \in 1..Len(outcomes) : outcomeStatus(outcomes[k]) = "succeeded"}
succeededIds == {outcomes[k].id : k \in succeededAt}

Upto(n) == [k \in 1..n |-> k]

\* C1: when a run reaches the complete phase the outcome list has one entry per
\* input item, in input order, and every entry is succeeded or failed.
C1_CompleteOutcomes ==
  completed =>
    /\ Len(outcomes) = Len(run.items)
    /\ \A k \in 1..Len(outcomes) :
         /\ outcomes[k].id = run.items[k]
         /\ outcomeStatus(outcomes[k]) \in {"succeeded", "failed"}

\* C2: on the YouTube page an analyze request is issued for every index whatever
\* happened to the items before it: inside the loop the requests issued so far are
\* those of indices 1..i, and a run whose analyze calls have started ends complete,
\* with a request issued for every item.
C2_EveryItemRequested ==
  page = "yt" =>
    /\ run.stage = "loop" => isAnalyzing /\ analyzeIssued = Upto(run.i)
    /\ (run.stage = "idle" /\ done.purpose = "analyze") =>
         /\ analysisComplete /\ ~isAnalyzing
         /\ analyzeIssued = Upto(Len(run.items))

\* C2 witness: the first of two items failed after its refresh failed (an
\* authorization failure), and the second was requested and the run completed.
C2_Witness ==
  /\ page = "yt" /\ analysisComplete /\ refreshFailed
  /\ Len(run.items) = 2
  /\ analyzedVideos[1].failed
  /\ analyzeIssued = <<1, 2>>

\* C3: one authenticated call sends at most two requests to its endpoint.
C3_AtMostTwoRequests == call.reqCount <= 2 /\ done.reqCount <= 2

\* C3 witness: a call whose retry was answered 401 again has returned.
C3_Witness ==
  done.reqCount = 2 /\ done.first.status = "unauth" /\ done.second.status = "unauth"

\* C4: a call whose first response was 401 and whose refresh succeeded made one
\* refresh request, sent the request a second time with the token that refresh
\* issued, and returned the second response.
C4_RefreshThenRetry ==
  /\ call.pc = "req2" => call.sentTok = call.newTok /\ call.newTok # null
  /\ (done.first.status = "unauth" /\ done.refreshOutcome = "ok") =>
       /\ done.refreshCount = 1
       /\ done.reqCount = 2
       /\ done.sentTok = done.newTok
       /\ done.newTok # null /\ done.newTok # done.capTok
       /\ done.second.attempt = 2
       /\ done.returned = done.second

\* C4 witness: such a call returned a second response that is not a success.
C4_Witness ==
  /\ done.first.status = "unauth" /\ done.refreshOutcome = "ok"
  /\ done.returned.status = "error" /\ done.returned.attempt = 2

\* C5: a call whose first response was 401 and whose refresh failed (no refresh
\* token, or the refresh request failed) sent no second request and returned the
\* first response.
C5_RefreshFailedNoRetry ==
  /\ call.pc = "req2" => call.refreshOutcome = "ok"
  /\ (done.first.status = "unauth" /\ done.refreshOutcome \in {"fail", "skipped"}) =>
       /\ done.reqCount = 1
       /\ done.second = NoResponse
       /\ done.returned = done.first

\* C5 witness: a call whose refresh request failed has returned its 401 response.
C5_Witness ==
  /\ done.refreshOutcome = "fail" /\ done.refreshCount = 1
  /\ done.returned.status = "unauth" /\ done.returned.attempt = 1

\* C6: right after a refresh failed the platform's tokens are absent from memory
\* and from localStorage, and the platform user is absent.
C6_RefreshFailureClears ==
  lastOp.op = "refreshFailed" =>
    /\ token[page] = null
    /\ refreshTok[page] = null
    /\ localStorage[page] = [token |-> null, refresh_token |-> null]
    /\ ~platformUser[page]
    /\ ~isConnected(page)

\* C6 witness: the refresh request of a call that held both tokens has just failed.
C6_Witness ==
  /\ lastOp.op = "refreshFailed"
  /\ done.refreshOutcome = "fail" /\ done.capTok # null /\ done.capRefresh # null

\* C7: once a refresh has failed no request goes to the refresh endpoint (until an
\* authorization callback succeeds).
C7_NoRefreshAfterFailure == ~(refreshFailed /\ call.pc = "refresh")

RECURSIVE axisTotal(_, _)
\* the sum of one axis over the outcomes at the positions in at
axisTotal(at, key) ==
  IF at = {} THEN 0
  ELSE LET k == CHOOSE j \in at : TRUE
       IN  outcomes[k].profile[key] + axisTotal(at \ {k}, key)

\* the aggregate profile the completed view shows
aggregate == IF page = "yt" THEN avgProfile ELSE analyzedData.average_profile

\* C8: the aggregate of a completed run is, per axis, the sum over the succeeded
\* outcomes divided by their number, and it is absent exactly when none succeeded.
C8_Aggregate ==
  completed =>
    /\ (aggregate = NoProfile) <=> (succeededAt = {})
    /\ succeededAt # {} =>
         \A key \in AXES :
           aggregate[key] = [sum |-> axisTotal(succeededAt, key),
                             count |-> Cardinality(succeededAt)]

\* C8 witness: a completed YouTube run with one succeeded outcome and a failed
\* outcome that still carries the profile of an earlier analysis of the same id.
C8_Witness ==
  /\ completed /\ page = "yt"
  /\ Cardinality(succeededAt) = 1
  /\ \E k \in 1..Len(outcomes) : outcomes[k].failed /\ Truthy(outcomes[k].profile)

\* C9: selectAll leaves exactly the succeeded ids that are not saved selected.
C9_SelectAllSkipsSaved ==
  lastOp.op = "selectAll" => selected = succeededIds \ saved

\* C10: a toggle of an id that is saved leaves it unselected.
C10_SavedStaysUnselected ==
  (lastOp.op = "rowClick" /\ lastOp.id \in saved) => lastOp.id \notin selected

\* C11: once no save is running, no id is both saved and selected.
C11_SavedNotSelected == ~saving => selected \cap saved = {}

\* C12: the items one save action passes to save have pairwise different ids, and
\* each of them succeeded or (on the Spotify page) has no analysis.
C12_SaveOncePerId ==
  /\ \A i, j \in 1..Len(saveQueue) : i # j => saveQueue[i].id # saveQueue[j].id
  /\ \A i \in 1..Len(saveQueue) :
       outcomeStatus(saveQueue[i]) \in
         (IF page = "yt" THEN {"succeeded"} ELSE {"succeeded", "none"})

\* C13: the item a save call is in flight for is not already saved.
C13_SavedNotSavedAgain == saveQueue # <<>> => saveQueue[1].id \notin saved

\* C14: after a restricted audio-features answer the run is not aborted and ends
\* complete with the advisory still shown; a track the answer has no entry for ends
\* with no profile and not analyzing; and the record saved for such a track has
\* every axis at 0.5.
C14_RestrictedNoAnalysis ==
  (page = "sp" /\ error = "restricted") =>
    /\ analysisPhase \in {"analyzing", "complete"}
    /\ run.stage \in {"resolve", "idle"}
    /\ run.stage = "idle" => analysisPhase = "complete"
    /\ analysisPhase = "complete" =>
         /\ Len(analyzedData.tracks) = Len(run.items)
         /\ \A k \in 1..Len(run.items) :
              run.features[run.items[k]] = NoProfile =>
                trackStatus(analyzedData.tracks[k]) = "none"
    /\ \A i \in 1..Len(saveQueue) :
         ~Truthy(saveQueue[i].profile) =>
           \A key \in AXES : songData(saveQueue[i]).profile[key] = 5

\* C14 witness: a restricted run is complete and the save of a track without an
\* entry in the answer is in flight.
C14_Witness ==
  /\ page = "sp" /\ error = "restricted" /\ analysisPhase = "complete"
  /\ saveQueue # <<>>
  /\ run.features[saveQueue[1].id] = NoProfile
  /\ trackStatus(saveQueue[1]) = "none"

\* the item list of the run on the page has just arrived and is empty
emptyListFetched ==
  /\ done.purpose \in {"videos", "tracks"}
  /\ done.returned.status = "ok" /\ done.returned.body # Malformed
  /\ done.returned.body.items = <<>>
  /\ run.stage # "list"

\* C15: once an empty item list has been fetched the run is complete, with no
\* outcomes and no aggregate, and no analysis request is awaited.
C15_EmptyPlaylistCompletes ==
  emptyListFetched =>
    /\ completed
    /\ outcomes = <<>>
    /\ aggregate = NoProfile
    /\ call.pc = "idle"

\* a run is in flight: its list request, its loop, or one of its timers is pending
runInFlight == run.stage # "idle"

\* C16: a run is started only when no earlier run is in flight (the playlist
\* buttons are disabled for as long as one is), so the state the new run starts
\* with -- no outcomes, progress at 0, the list request as the only call -- is
\* changed by the new run alone.
C16_NoOverlappingRuns ==
  [][lastOp'.op = "analyzePlaylist" =>
       /\ ~runInFlight
       /\ call.pc = "idle"
       /\ run'.stage = "list" /\ call'.purpose \in {"videos", "tracks"}
       /\ progress'.current = 0
       /\ analyzedVideos' = <<>> /\ tracksBeingAnalyzed' = <<>> /\ analyzedData' = NoData]_vars

\* C16 witness: a second run was started after the calls of an earlier run on the
\* page had returned.
C16_Witness ==
  /\ lastOp.op = "analyzePlaylist"
  /\ done.purpose \in {"videos", "analyze", "tracks", "features"}
  /\ run.stage = "list"

\* C17: the refresh of fetchYouTubeUser and the refresh of an authenticated call
\* are never in flight together, and between the start and the end of a refresh of
\* fetchYouTubeUser no other refresh stored a token pair (which its outcome would
\* overwrite or clear).
C17_OneRefreshAtATime ==
  /\ ~(me.pc = "refresh" /\ call.pc = "refresh")
  /\ lastOp.op = "userRefreshFailed" => issued = me.since
  /\ lastOp.op = "userRefreshOk" => issued = me.since + 1

\* C18: within a run on the YouTube page an outcome that is no longer pending is
\* never changed again: every later step of the run leaves its status and its profile
\* as they are.
C18_OutcomeSettlesOnce ==
  [][(page = "yt" /\ lastOp'.op # "analyzePlaylist") =>
       \A k \in 1..Len(analyzedVideos) :
         ~analyzedVideos[k].analyzing =>
           /\ k <= Len(analyzedVideos')
           /\ Status(analyzedVideos'[k]) = Status(analyzedVideos[k])
           /\ analyzedVideos'[k].profile = analyzedVideos[k].profile]_vars

\* C19: within a run progress.current is never below a value the run gave it before.
C19_ProgressNeverDecreases == progress.current >= run.high

\* C20: while the items are analyzed progress.total is the length of the fetched
\* item list, and a completed run over N items shows progress {current: N, total: N}.
C20_TotalIsListLength ==
  /\ ((page = "yt" /\ run.stage = "loop") \/ (page = "sp" /\ analysisPhase = "analyzing")) =>
       progress.total = Len(run.items)
  /\ completed =>
       progress = [current |-> Len(run.items), total |-> Len(run.items)]

\* C21: a first response that is not a 401 (a network error included) goes to the
\* caller as it is, in the step it arrives in: one request, no refresh, no retry,
\* and the tokens in memory and in localStorage stay as they were.
C21_Non401PassesThrough ==
  [][/\ lastOp'.op = "response" =>
          /\ call.pc = "req1"
          /\ done'.first.status \in {"ok", "error", "throw"}
          /\ token' = token /\ refreshTok' = refreshTok /\ localStorage' = localStorage
          /\ issued' = issued
     /\ done'.first.status \in {"ok", "error", "throw"} =>
          /\ done'.reqCount = 1 /\ done'.refreshCount = 0
          /\ done'.refreshOutcome = "none"
          /\ done'.second = NoResponse
          /\ done'.returned = done'.first
     /\ (call.pc = "req1" /\ call'.pc \in {"refresh", "req2"} /\ call'.reqCount >= call.reqCount
         /\ call'.purpose = call.purpose /\ lastOp'.op \in {"refreshSent", "refreshFailed"}) =>
          call'.first.status = "unauth"]_vars

\* C21 witness: a request that threw has reached the caller of the call.
C21_Witness ==
  /\ lastOp.op = "response"
  /\ done.returned.status = "throw" /\ done.reqCount = 1
  /\ token[page] # null

\* no refresh token of the platform is stored, in memory or in localStorage
noRefreshTokenStored ==
  refreshTok[page] = null /\ localStorage[page].refresh_token = null

\* C22: when a call is answered 401 while no refresh token is stored, no request
\* goes to the refresh endpoint, and the session ends up disconnected: tokens and
\* platform user absent.
C22_NoRefreshTokenDisconnects ==
  [][(call.pc = "req1" /\ noRefreshTokenStored /\ lastOp'.op \in {"refreshSent", "refreshFailed"}) =>
       /\ lastOp'.op = "refreshFailed"
       /\ done'.refreshCount = 0
       /\ token'[page] = null /\ refreshTok'[page] = null
       /\ localStorage'[page] = [token |-> null, refresh_token |-> null]
       /\ ~platformUser'[page]]_vars

\* C23: the step in which a refresh succeeds stores the access token of the answer
\* in memory and in localStorage; a rotated refresh token carried by the answer is
\* stored in both too, and without one the stored refresh token is unchanged.
C23_RefreshStoresTokens ==
  [][lastOp'.op = "refreshOk" =>
       /\ call'.newTok # null
       /\ token'[page] = call'.newTok
       /\ localStorage'[page].token = call'.newTok
       /\ IF call'.rotated # null
          THEN /\ refreshTok'[page] = call'.rotated
               /\ localStorage'[page].refresh_token = call'.rotated
          ELSE /\ refreshTok'[page] = refreshTok[page]
               /\ localStorage'[page].refresh_token = localStorage[page].refresh_token]_vars

\* C24: the mount effect run with an access token in the callback parameters
\* stores that token, and the refresh token when there is one, in memory and in
\* localStorage, and removes the parameters from the location.
C24_CallbackStoresTokens ==
  [][(~mounted /\ mounted' /\ urlParams.token # null) =>
       /\ token'[page] = urlParams.token
       /\ localStorage'[page].token = urlParams.token
       /\ urlParams.refresh # null =>
            /\ refreshTok'[page] = urlParams.refresh
            /\ localStorage'[page].refresh_token = urlParams.refresh
       /\ urlParams' = NoParams]_vars

\* C24 witness: the provider has mounted on a callback that carried both tokens.
C24_Witness ==
  /\ lastOp = [op |-> "mount", id |-> "callback"]
  /\ token[page] = 2 /\ refreshTok[page] = 2
  /\ localStorage[page] = [token |-> 2, refresh_token |-> 2]
  /\ urlParams = NoParams

\* C25: the mount effect run with an error and no access token in the callback
\* parameters leaves localStorage as it is, and it completes.
C25_CallbackErrorKeepsStorage ==
  [][(~mounted /\ urlParams.error /\ urlParams.token = null /\ lastOp'.op = "mount") =>
       /\ mounted'
       /\ localStorage' = localStorage]_vars

\* C25 witness: the provider has mounted on an error callback and a token pair
\* stored by an earlier session is still in localStorage.
C25_Witness ==
  /\ lastOp = [op |-> "mount", id |-> "error"]
  /\ mounted
  /\ localStorage[page] = [token |-> 1, refresh_token |-> 1]

\* a session with nothing in it
clearedSession ==
  [token |-> null, refreshToken |-> null, user |-> FALSE,
   ls |-> [token |-> null, refresh_token |-> null]]

\* C26: disconnect applied to the session of any reachable state gives the cleared
\* session, applied to its own result it changes nothing, and right after the
\* Disconnect button (or a failed refresh) the session is the cleared one.
C26_DisconnectClearsIdempotent ==
  /\ disconnect(Sess(page)) = clearedSession
  /\ disconnect(disconnect(Sess(page))) = disconnect(Sess(page))
  /\ lastOp.op \in {"disconnect", "refreshFailed"} =>
       Sess(page) = clearedSession /\ ~isConnected(page)

\* C26 witness: the refresh of the playlists call has failed and disconnect has
\* cleared a session that held a token.
C26_Witness ==
  /\ lastOp.op = "refreshFailed"
  /\ done.refreshOutcome = "fail"
  /\ done.capTok # null
  /\ Sess(page) = clearedSession
  /\ refreshFailed /\ done.purpose = "playlists" /\ playlists = "empty"

\* C27: a mount without callback parameters restores exactly the access token and
\* the refresh token localStorage holds and leaves localStorage as it is; and since
\* every disconnect leaves localStorage empty, a restart after one restores nothing.
C27_RestartRestoresStored ==
  [][/\ (~mounted /\ mounted' /\ urlParams.token = null) =>
          /\ token'[page] = localStorage[page].token
          /\ refreshTok'[page] = localStorage[page].refresh_token
          /\ localStorage' = localStorage
     /\ lastOp'.op \in {"disconnect", "refreshFailed", "userRefreshFailed", "userDisconnected"} =>
          localStorage'[page] = [token |-> null, refresh_token |-> null]
     /\ lastOp'.op = "restart" =>
          /\ localStorage' = localStorage
          /\ urlParams' = NoParams /\ ~mounted'
          /\ token'[page] = null]_vars

\* C27 witness: after a restart the provider has restored a token pair whose access
\* token was stored by a refresh of the earlier session.
C27_Witness ==
  /\ lastOp = [op |-> "mount", id |-> "restore"]
  /\ token[page] >= 3
  /\ localStorage[page].token = token[page]
  /\ refreshTok[page] = localStorage[page].refresh_token
  /\ refreshTok[page] # null

\* C28: once the provider has mounted, no step takes the session from holding no
\* access token to holding one (short of a new page load with a callback).
C28_NoReconnectWithoutCallback ==
  [][(mounted /\ token[page] = null) => token'[page] = null]_vars

\* C29: whenever the session holds no access token the platform user is absent.
C29_NoUserWithoutToken == token[page] = null => ~platformUser[page]

\* the platform whose page is not on screen
other == CHOOSE p \in Platforms : p # page

C31_SelectionOnlySucceeded == \A id \in selected : id \in succeededIds

\* C32: a step takes an id out of the saved set only when it is the choice of a
\* playlist, and the choice of a playlist leaves the saved set and the selection
\* both empty: toggles, selectAll, selectNone and saves only let the saved set grow.
C32_SavedOnlyGrows ==
  [][/\ ~(saved \subseteq saved') => lastOp'.op = "analyzePlaylist"
     /\ lastOp'.op = "analyzePlaylist" => (saved' = {} /\ selected' = {})]_vars

\* C32 witness: selectNone was clicked while an id was saved, and the id is still
\* saved.
C32_Witness == saved # {} /\ lastOp.op = "selectNone"

\* the position in the list of the item whose analysis returned last
settledAt == IF run.stage = "loop" THEN run.i - 1 ELSE run.i

\* C33: when the analysis of an item is answered 2xx with a payload that has no
\* profile or cannot be parsed, the item's outcome is failed with an absent profile
\* and its id is among the failures.
C33_NoProfileIsFailed ==
  (/\ page = "yt" /\ done.purpose = "analyze" /\ done.returned.status = "ok"
   /\ settledAt \in 1..Len(analyzedVideos)
   /\ \/ done.returned.body = Malformed
      \/ done.returned.body.profile = NoProfile) =>
    /\ Status(analyzedVideos[settledAt]) = "failed"
    /\ analyzedVideos[settledAt].profile = NoProfile
    /\ \E k \in 1..Len(failedVideos) : failedVideos[k] = analyzedVideos[settledAt].id

\* the positions of the entries that are still pending
pendingAt == {k \in 1..Len(analyzedVideos) : analyzedVideos[k].analyzing}

\* C34: in the per-item run at most one item is pending, and it is the item whose
\* analyze call is in flight; the analyze requests are issued in list order, so the
\* request for an item goes out only when no earlier item is pending any more.
C34_OneItemAtATime ==
  page = "yt" =>
    /\ Cardinality(pendingAt) <= 1
    /\ \A k \in pendingAt :
         /\ run.stage = "loop" /\ k = run.i /\ k = Len(analyzedVideos)
         /\ call.purpose = "analyze" /\ call.pc # "idle"
    /\ analyzeIssued = Upto(Len(analyzeIssued))
    /\ Len(analyzeIssued) = Len(analyzedVideos)

\* C34 witness: the second item of the list is pending and the first one is settled.
C34_Witness ==
  /\ page = "yt" /\ pendingAt = {2}
  /\ call.purpose = "analyze" /\ call.pc # "idle"
  /\ ~analyzedVideos[1].analyzing

\* the last call that returned was the fetch of the item list, and it failed
listFetchFailed ==
  /\ done.purpose \in {"videos", "tracks"}
  /\ done.returned.status # "ok" \/ done.returned.body = Malformed

\* the page shows a run in progress
analyzing == IF page = "yt" THEN isAnalyzing ELSE analysisPhase \in {"fetching", "analyzing"}

\* C35: when the fetch of the item list fails the run reports the error; and as long
\* as that error stands the run is over, the page is not analyzing and not complete,
\* and no analyze request (per item, or for the audio features) has been issued.
C35_ListFailureAborts ==
  /\ (listFetchFailed /\ lastOp.op \in {"response", "retryResponse", "refreshFailed"}) =>
       error = "failed"
  /\ (listFetchFailed /\ error = "failed") =>
       /\ run.stage = "idle" /\ call.pc = "idle"
       /\ ~analyzing /\ ~completed
       /\ analyzeIssued = <<>>
       /\ page = "yt" => analyzedVideos = <<>>
       /\ page = "sp" => (tracksBeingAnalyzed = <<>> /\ analyzedData = NoData)

\* C35 witness: the list request was answered 401, was refreshed and reissued, and
\* the reissued request failed too; the run has ended with the error.
C35_Witness ==
  /\ listFetchFailed /\ lastOp.op = "retryResponse"
  /\ error = "failed" /\ ~analyzing

\* the item list of the run arrived and the run has gone on from there
listFetched == run.stage \in {"loop", "reveal", "features", "resolve"}

\* C36: when every request is answered, a page that is analyzing eventually stops
\* analyzing, and a run whose item list was fetched eventually reaches the complete
\* phase.
C36_RunEnds ==
  /\ analyzing ~> ~analyzing
  /\ listFetched ~> completed

\* C37: whenever the first request of an authenticated call goes out while the
\* credential store holds an access token, the request carries that token.
C37_FirstAttemptCurrentToken ==
  [][(call'.pc = "req1" /\ call' # call /\ token'[page] # null) =>
       call'.sentTok = token'[page]]_vars

\* C38: a save call that returns adds the id of its item to the saved set, a save
\* call that throws adds nothing, and nothing else adds an id; after either answer
\* the save action goes on with the rest of what it has to save, a call for the next
\* item being in flight unless none is left.
C38_SavedIffSaveReturned ==
  [][/\ lastOp'.op = "saveOk" => saved' = saved \cup {saveQueue[1].id}
     /\ lastOp'.op = "saveThrow" => saved' = saved
     /\ lastOp'.op \in {"saveOk", "saveThrow"} =>
          /\ saveQueue' = Tail(saveQueue)
          /\ saving' = (saveQueue' # <<>>)
     /\ (saved' # saved /\ saved' # {}) => lastOp'.op = "saveOk"]_vars

\* C38 witness: the save call of the first of two selected items threw, nothing is
\* saved, and the save call of the second is in flight.
C38_Witness ==
  /\ lastOp.op = "saveThrow" /\ saved = {}
  /\ saving /\ Len(saveQueue) = 1 /\ Cardinality(selected) = 2

\* C39: a save action starts only while no save action is in progress (saving is
\* false and no save call is in flight), and a save call is in flight only while
\* saving is true.
C39_OneSaveAtATime ==
  [][/\ lastOp'.op = "save" => (~saving /\ saveQueue = <<>>)
     /\ saveQueue' # <<>> => saving']_vars

\* C39 witness: a second save action has started after an earlier one saved an item.
C39_Witness == lastOp.op = "save" /\ saving /\ saveQueue # <<>> /\ saved # {}

\* C40: when a credential operation (callback, refresh, disconnect) has just
\* completed, the access and refresh token in memory are the ones in localStorage.
C40_MemoryIsDurable ==
  (\/ lastOp = [op |-> "mount", id |-> "callback"]
   \/ lastOp.op \in {"refreshOk", "refreshFailed", "disconnect"}) =>
    /\ token[page] = localStorage[page].token
    /\ refreshTok[page] = localStorage[page].refresh_token

====
